---- MODULE Spec2Model ----
(***************************************************************************)
(* PowerPulse ML service: appliance-profile training, phantom-source       *)
(* detection, hybrid usage-factor estimation and energy disaggregation.    *)
(*                                                                         *)
(* Units.  Python floats are modelled by exact fixed-point integers:       *)
(*   power            milliwatts (1 W = 1000)                              *)
(*   usage factors    1/10000 once rounded to 4 decimals, 1/300000 before  *)
(*   round(x, n)      round-half-to-even on the exact value                *)
(* IEEE-754 representation error is outside the model.                     *)
(***************************************************************************)
EXTENDS Integers, Sequences, FiniteSets, TLC

VARIABLES
    dataset,             \* House_4.csv as the three readers see it
    profile_file,        \* appliance_profiles.json
    cached_ml_patterns,  \* logic_stats._cached_ml_patterns
    request,             \* the call being served (ThreadedSpec: per worker)
    response             \* what the call returned (ThreadedSpec: per worker)

vars == <<dataset, profile_file, cached_ml_patterns, request, response>>

\* ------------------------------------------------------------- bounds

\* longest inventory of a detection request
MaxInv == 3

\* longest appliance list of a disaggregation request
MaxApps == 2

\* number of worker threads serving requests at the same time
MaxWorkers == 2

\* number of equal steps into which the range of ml_factor, 0 to 1, is
\* cut where a whole range of pattern tables is drawn
ScenarioSteps == 8

\* ------------------------------------------------------------ helpers

Abs(x) == IF x < 0 THEN -x ELSE x

Max(a, b) == IF a >= b THEN a ELSE b

Min(a, b) == IF a <= b THEN a ELSE b

\* Python's round(): n/d to the nearest integer, ties to even (d > 0).
RoundHalfEven(n, d) ==
    LET m == Abs(n)
        q == m \div d
        r == m % d
        up == IF r > d - r THEN 1
              ELSE IF r < d - r THEN 0
              ELSE IF q % 2 = 0 THEN 0 ELSE 1
    IN  IF n < 0 THEN -(q + up) ELSE q + up

\* round(w, 2) of a power given in half-milliwatts, result in milliwatts.
round2_half_mw(h) == 10 * RoundHalfEven(h, 20)

\* round(w, 2) of a power in milliwatts, result in milliwatts.
round2_mw(x) == 10 * RoundHalfEven(x, 10)

\* A Python dict is a function whose DOMAIN is its key set.
EmptyDict == [k \in {} |-> 0]

\* ---------------------------------------------------- logic_training.py

APPLIANCE_MAPPING ==
    {"Fridge", "Washing Machine", "Computer/PC", "Television", "Microwave",
     "Air Conditioner", "Ceiling Fan"}

ALWAYS_ON_APPLIANCES == {"Fridge", "Refrigerator"}

\* Mutant: the upper limit of the phantom range tested with `>= 50`.
cluster_profile_range_exclusive(user_label, centers) ==
    LET off_power     == centers[1]
        standby_power == centers[2]
        active_power  == centers[3]
        diff          == standby_power - off_power
        phantom2      == IF diff < 0 \/ diff >= 50000
                         THEN Max(2000, off_power)
                         ELSE 2 * diff
        mid2          == standby_power + active_power
        threshold2    == IF mid2 < 10000 THEN 10000 ELSE mid2
    IN  [phantom_power_watts    |-> round2_half_mw(phantom2),
         active_threshold_watts |-> round2_half_mw(threshold2),
         always_on              |-> user_label \in ALWAYS_ON_APPLIANCES]

\* Mutant: the midpoint stored without the minimum of 5.0.
cluster_profile_unfloored(user_label, centers) ==
    LET off_power     == centers[1]
        standby_power == centers[2]
        active_power  == centers[3]
        diff          == standby_power - off_power
        phantom2      == IF diff < 0 \/ diff > 50000
                         THEN Max(2000, off_power)
                         ELSE 2 * diff
        mid2          == standby_power + active_power
    IN  [phantom_power_watts    |-> round2_half_mw(phantom2),
         active_threshold_watts |-> round2_half_mw(mid2),
         always_on              |-> user_label \in ALWAYS_ON_APPLIANCES]

\* The profile derived from the three sorted KMeans centers (milliwatts).
cluster_profile(user_label, centers) ==
    LET off_power     == centers[1]
        standby_power == centers[2]
        active_power  == centers[3]
        diff          == standby_power - off_power
        \* phantom power, in half-milliwatts
        phantom2      == IF diff < 0 \/ diff > 50000
                         THEN Max(2000, off_power)
                         ELSE 2 * diff
        \* (standby + active) / 2, in half-milliwatts
        mid2          == standby_power + active_power
        threshold2    == IF mid2 < 10000 THEN 10000 ELSE mid2
    IN  [phantom_power_watts    |-> round2_half_mw(phantom2),
         active_threshold_watts |-> round2_half_mw(threshold2),
         always_on              |-> user_label \in ALWAYS_ON_APPLIANCES]

\* The except-branch profile of an appliance whose clustering raised.
fallback_profile(user_label) ==
    [phantom_power_watts    |-> 1000,
     active_threshold_watts |-> 10000,
     always_on              |-> user_label \in ALWAYS_ON_APPLIANCES]

led_lights_profile ==
    [phantom_power_watts |-> 0, active_threshold_watts |-> 5000,
     always_on |-> FALSE]

\* Mutant: an appliance whose clustering raised is skipped (`continue` in
\* the except branch) instead of given the fallback profile.
build_profiles_skipping_failed(ds) ==
    LET clustered ==
            [l \in ((APPLIANCE_MAPPING \cap ds.columns) \ ds.kmeans_fails) |->
                cluster_profile(l, ds.centers[l])]
        aliased ==
            IF "Fridge" \in DOMAIN clustered
            THEN ("Refrigerator" :>
                    [clustered["Fridge"] EXCEPT !.always_on = TRUE])
                 @@ clustered
            ELSE clustered
    IN  ("LED Lights" :> led_lights_profile) @@ aliased

\* Mutant: the Refrigerator alias written whether or not Fridge has an
\* entry, from the fallback values when it has none.
build_profiles_alias_always(ds) ==
    LET clustered ==
            [l \in (APPLIANCE_MAPPING \cap ds.columns) |->
                IF l \in ds.kmeans_fails
                THEN fallback_profile(l)
                ELSE cluster_profile(l, ds.centers[l])]
        aliased ==
            ("Refrigerator" :>
                IF "Fridge" \in DOMAIN clustered
                THEN [clustered["Fridge"] EXCEPT !.always_on = TRUE]
                ELSE fallback_profile("Refrigerator"))
            @@ clustered
    IN  ("LED Lights" :> led_lights_profile) @@ aliased

\* The dict train_appliance_models builds from a readable dataset.
build_profiles(ds) ==
    LET clustered ==
            [l \in (APPLIANCE_MAPPING \cap ds.columns) |->
                IF l \in ds.kmeans_fails
                THEN fallback_profile(l)
                ELSE cluster_profile(l, ds.centers[l])]
        aliased ==
            IF "Fridge" \in DOMAIN clustered
            THEN ("Refrigerator" :>
                    [clustered["Fridge"] EXCEPT !.always_on = TRUE])
                 @@ clustered
            ELSE clustered
    IN  ("LED Lights" :> led_lights_profile) @@ aliased

\* Mutant: the new profiles merged into the previous content of the file
\* instead of replacing it.
train_appliance_models_merging(ds, file) ==
    IF ~ds.readable
    THEN [raised |-> TRUE, profiles |-> EmptyDict, file |-> file]
    ELSE LET profiles == build_profiles(ds)
         IN  [raised |-> FALSE, profiles |-> profiles,
              file |-> [exists |-> TRUE, complete |-> TRUE,
                        profiles |-> profiles @@ file.profiles]]

\* open(output_path, 'w'): the file is there and empty.
opened_for_writing ==
    [exists |-> TRUE, complete |-> FALSE, profiles |-> EmptyDict]

\* json.dump(profiles, f) and the end of the with-block: the whole
\* document is in the file.
dumped(profiles) ==
    [exists |-> TRUE, complete |-> TRUE, profiles |-> profiles]

\* Mutant: the profile file opened for writing before the dataset is
\* read.
train_appliance_models_opening_first(ds, file) ==
    IF ~ds.readable
    THEN [raised |-> TRUE, profiles |-> EmptyDict,
          file |-> opened_for_writing]
    ELSE LET profiles == build_profiles(ds)
         IN  [raised |-> FALSE, profiles |-> profiles,
              file |-> dumped(profiles)]

\* train_appliance_models: raises when the dataset cannot be read, before
\* the profile file is opened; otherwise rewrites the file and returns.
train_appliance_models(ds, file) ==
    IF ~ds.readable
    THEN [raised |-> TRUE, profiles |-> EmptyDict, file |-> file]
    ELSE LET profiles == build_profiles(ds)
         IN  [raised |-> FALSE, profiles |-> profiles,
              file |-> dumped(profiles)]

\* --------------------------------------------------- logic_detection.py

\* load_profiles: the file's dict, or {} when the file is not there.
\* Only FileNotFoundError is caught: a file that is there but does not
\* hold a whole JSON document makes json.load raise.
load_profiles(file) ==
    IF ~file.exists THEN [raised |-> FALSE, profiles |-> EmptyDict]
    ELSE IF ~file.complete THEN [raised |-> TRUE, profiles |-> EmptyDict]
    ELSE [raised |-> FALSE, profiles |-> file.profiles]

\* Mutant: the floor test written `p_val >= 0.5`.
candidate_step_floor_inclusive(profiles, acc, app_type) ==
    IF acc.raised THEN acc
    ELSE IF app_type \in DOMAIN profiles
         THEN LET p_val == profiles[app_type].phantom_power_watts
              IN  IF p_val >= 500
                  THEN [acc EXCEPT !.powers = Append(@, <<app_type, p_val>>)]
                  ELSE acc
         ELSE acc

\* Mutant: the lookup without `if app_type in profiles` (a KeyError for an
\* unknown label).
candidate_step_unguarded(profiles, acc, app_type) ==
    IF acc.raised THEN acc
    ELSE IF app_type \notin DOMAIN profiles
         THEN [acc EXCEPT !.raised = TRUE]
         ELSE LET p_val == profiles[app_type].phantom_power_watts
              IN  IF p_val > 500
                  THEN [acc EXCEPT !.powers = Append(@, <<app_type, p_val>>)]
                  ELSE acc

\* One pass of the inventory loop: the guarded profile lookup and the
\* 0.5 W floor.  acc.raised records a KeyError of an unguarded lookup.
candidate_step(profiles, acc, app_type) ==
    IF acc.raised THEN acc
    ELSE IF app_type \in DOMAIN profiles
         THEN LET p_val == profiles[app_type].phantom_power_watts
              IN  IF p_val > 500
                  THEN [acc EXCEPT !.powers = Append(@, <<app_type, p_val>>)]
                  ELSE acc
         ELSE acc

RECURSIVE candidate_loop(_, _, _, _)
candidate_loop(profiles, user_inventory, i, acc) ==
    IF i > Len(user_inventory) THEN acc
    ELSE candidate_loop(profiles, user_inventory, i + 1,
                        candidate_step(profiles, acc, user_inventory[i]))

\* candidate_powers after the loop over user_inventory.
candidate_powers(profiles, user_inventory) ==
    candidate_loop(profiles, user_inventory, 1,
                   [raised |-> FALSE, powers |-> <<>>])

\* itertools.combinations over positions lo..n taken r at a time: index
\* tuples in lexicographic order.
RECURSIVE combinations(_, _, _)
combinations(lo, n, r) ==
    IF r = 0 THEN << <<>> >>
    ELSE IF n - lo + 1 < r THEN <<>>
    ELSE LET rest == combinations(lo + 1, n, r - 1)
         IN  [k \in 1..Len(rest) |-> <<lo>> \o rest[k]]
             \o combinations(lo + 1, n, r)

\* The two nested for-loops: every combo of size r = first..n, sizes in
\* increasing order.
RECURSIVE combos_from(_, _)
combos_from(r, n) ==
    IF r > n THEN <<>>
    ELSE combinations(1, n, r) \o combos_from(r + 1, n)

\* Mutant: `range(1, len(candidate_powers))`, the full set never tried.
search_order_short(n) == combos_from(1, n - 1)

search_order(n) == combos_from(1, n)

RECURSIVE combo_sum(_, _, _)
combo_sum(powers, combo, k) ==
    IF k > Len(combo) THEN 0
    ELSE powers[combo[k]][2] + combo_sum(powers, combo, k + 1)

\* Mutant: `if diff <= best_diff`, the last of equal subsets wins.
improves_or_ties(diff, best) == best.inf \/ diff <= best.diff

\* `if diff < best_diff`, best_diff starting at float('inf').
improves(diff, best) == best.inf \/ diff < best.diff

RECURSIVE search(_, _, _, _, _)
search(powers, reading, order, i, best) ==
    IF i > Len(order) THEN best
    ELSE LET combo       == order[i]
             current_sum == combo_sum(powers, combo, 1)
             diff        == Abs(reading - current_sum)
         IN  search(powers, reading, order, i + 1,
                    IF improves(diff, best)
                    THEN [inf |-> FALSE, diff |-> diff, combo |-> combo]
                    ELSE best)

\* Mutant: the empty-store result carrying the reading as error_margin.
no_profiles_result_margin(current_mains_reading) ==
    [raised |-> FALSE,
     input_reading_watts |-> current_mains_reading,
     detected_appliances |-> <<>>,
     total_phantom_watts |-> 0,
     error_margin        |-> current_mains_reading,
     is_valid_detection  |-> FALSE]

\* The dict returned when load_profiles gave nothing.
no_profiles_result(current_mains_reading) ==
    [raised |-> FALSE,
     input_reading_watts |-> current_mains_reading,
     detected_appliances |-> <<>>,
     total_phantom_watts |-> 0,
     error_margin        |-> 0,
     is_valid_detection  |-> FALSE]

\* Mutant: the no-candidate result with a zero error_margin.
no_candidates_result_zero(current_mains_reading) ==
    [raised |-> FALSE,
     input_reading_watts |-> current_mains_reading,
     detected_appliances |-> <<>>,
     total_phantom_watts |-> 0,
     error_margin        |-> 0,
     is_valid_detection  |-> FALSE]

\* The dict returned when no inventory item became a candidate.
no_candidates_result(current_mains_reading) ==
    [raised |-> FALSE,
     input_reading_watts |-> current_mains_reading,
     detected_appliances |-> <<>>,
     total_phantom_watts |-> 0,
     error_margin        |-> current_mains_reading,
     is_valid_detection  |-> FALSE]

\* Mutant: the division without the `if current_mains_reading > 0` guard.
error_percent_unguarded(best_diff, current_mains_reading) ==
    [raised |-> current_mains_reading = 0, num |-> best_diff * 100,
     den |-> current_mains_reading]

\* error_percent as the fraction num / den: best_diff / reading * 100
\* when the reading is positive, else 100.  raised records a
\* ZeroDivisionError of an unguarded division.
error_percent(best_diff, current_mains_reading) ==
    IF current_mains_reading > 0
    THEN [raised |-> FALSE, num |-> best_diff * 100,
          den |-> current_mains_reading]
    ELSE [raised |-> FALSE, num |-> 100, den |-> 1]

\* Mutant: `error_percent < 30`.
valid_detection_strict(percent, best_combination) ==
    percent.num < 30 * percent.den /\ Len(best_combination) > 0

\* error_percent <= 30 and len(best_combination) > 0
valid_detection(percent, best_combination) ==
    percent.num <= 30 * percent.den /\ Len(best_combination) > 0

\* The returned dict; raised marks a call that ended in an exception
\* instead (predict_phantom turns it into HTTP 500).
detect_phantom_sources(current_mains_reading, user_inventory, file) ==
    LET loaded   == load_profiles(file)
        profiles == loaded.profiles
        cands    == candidate_powers(profiles, user_inventory)
        powers   == cands.powers
        found    == search(powers, current_mains_reading,
                           search_order(Len(powers)), 1,
                           [inf |-> TRUE, diff |-> 0, combo |-> <<>>])
        best_diff == IF found.inf THEN current_mains_reading ELSE found.diff
        best_combination ==
            [k \in 1..Len(found.combo) |-> powers[found.combo[k]][1]]
        total_phantom == combo_sum(powers, found.combo, 1)
        percent  == error_percent(best_diff, current_mains_reading)
    IN  IF loaded.raised
        THEN [raised |-> TRUE]
        ELSE IF DOMAIN profiles = {}
        THEN no_profiles_result(current_mains_reading)
        ELSE IF cands.raised
        THEN [raised |-> TRUE]
        ELSE IF powers = <<>>
        THEN no_candidates_result(current_mains_reading)
        ELSE IF percent.raised
        THEN [raised |-> TRUE]
        ELSE [raised |-> FALSE,
              input_reading_watts |-> current_mains_reading,
              detected_appliances |-> best_combination,
              total_phantom_watts |-> round2_mw(total_phantom),
              error_margin        |-> round2_mw(best_diff),
              is_valid_detection  |->
                  valid_detection(percent, best_combination)]

\* ------------------------------------------------------- logic_stats.py

\* calculate_ml_patterns_from_data: per mapped column, the share of rows
\* above the activity threshold, capped at 1.0 and rounded to 4 decimals
\* (units of 1/10000).  Raises when the dataset cannot be read.  Only
\* ml_factor is kept: peak_ratio and avg_power are never read back.
calculate_ml_patterns_from_data(ds) ==
    IF ~ds.readable
    THEN [raised |-> TRUE, patterns |-> EmptyDict]
    ELSE [raised |-> FALSE,
          patterns |->
            [app_name \in (APPLIANCE_MAPPING \cap ds.columns) |->
                [ml_factor |->
                    IF ds.rows = 0 THEN 0
                    ELSE IF ds.active_rows[app_name] >= ds.rows THEN 10000
                    ELSE RoundHalfEven(ds.active_rows[app_name] * 10000,
                                       ds.rows)]]]

\* malaysia_factor, in hundredths.
CLIMATE_ADJUSTMENTS ==
    ("Air Conditioner" :> 35) @@ ("Ceiling Fan" :> 50) @@
    ("Fridge" :> 95) @@ ("Refrigerator" :> 95)

\* hours per day, in half-hours.
TYPICAL_USAGE_HOURS ==
    ("Air Conditioner" :> 16) @@ ("Ceiling Fan" :> 24) @@
    ("Television" :> 12) @@ ("Computer/PC" :> 12) @@ ("Fridge" :> 48) @@
    ("Refrigerator" :> 48) @@ ("Washing Machine" :> 2) @@
    ("Microwave" :> 1) @@ ("LED Lights" :> 12) @@ ("Water Heater" :> 4) @@
    ("Rice Cooker" :> 2)

\* Mutant: the test written `if not _cached_ml_patterns`, which is also
\* true of the empty table a failed computation leaves.
\* The try-block: the table computed and assigned, {} when the
\* computation raised.  Two history fields ride with the value:
\* computations counts the calls of calculate_ml_patterns_from_data so
\* far, reused tells that some call found the table already there.
computed_cache(cache, ds) ==
    LET computed == calculate_ml_patterns_from_data(ds)
    IN  [is_none |-> FALSE,
         patterns |-> IF computed.raised THEN EmptyDict
                      ELSE computed.patterns,
         computations |-> cache.computations + 1,
         reused |-> cache.reused]

\* The table found in place and left as it is.
reused_cache(cache) == [cache EXCEPT !.reused = TRUE]

\* Mutant: the test written `if not _cached_ml_patterns`, which is also
\* true of the empty table a failed computation leaves.
ensure_ml_patterns_if_falsy(cache, ds) ==
    IF cache.is_none \/ DOMAIN cache.patterns = {}
    THEN computed_cache(cache, ds)
    ELSE reused_cache(cache)

\* The lazy initialisation of _cached_ml_patterns: computed when None,
\* untouched otherwise.
ensure_ml_patterns(cache, ds) ==
    IF cache.is_none
    THEN computed_cache(cache, ds)
    ELSE reused_cache(cache)

\* Mutant: the default of the inner get written 0 instead of 0.2.
lookup_ml_factor_default_zero(patterns, app_type) ==
    IF app_type \in DOMAIN patterns THEN patterns[app_type].ml_factor
    ELSE 0

\* _cached_ml_patterns.get(app_type, {}).get('ml_factor', 0.2), 1/10000.
lookup_ml_factor(patterns, app_type) ==
    IF app_type \in DOMAIN patterns THEN patterns[app_type].ml_factor
    ELSE 2000

\* CLIMATE_ADJUSTMENTS.get(app_type, {}).get('malaysia_factor', None)
lookup_climate_factor(app_type) ==
    IF app_type \in DOMAIN CLIMATE_ADJUSTMENTS
    THEN [is_none |-> FALSE, value |-> CLIMATE_ADJUSTMENTS[app_type]]
    ELSE [is_none |-> TRUE, value |-> 0]

\* TYPICAL_USAGE_HOURS.get(app_type, 4.0), in half-hours.
lookup_typical_hours(app_type) ==
    IF app_type \in DOMAIN TYPICAL_USAGE_HOURS
    THEN TYPICAL_USAGE_HOURS[app_type]
    ELSE 8

\* Mutant: the weights of the climate tier exchanged, 0.2 for the climate
\* factor and 0.6 for ml_factor.
blend_weights_exchanged(ml_factor, climate_factor, half_hours) ==
    IF ~climate_factor.is_none
    THEN [final_factor |-> 600 * climate_factor.value + 18 * ml_factor
                           + 1250 * half_hours,
          source |-> "climate_adjusted"]
    ELSE IF ml_factor > 100
    THEN [final_factor |-> 21 * ml_factor + 1875 * half_hours,
          source |-> "ml_dominant"]
    ELSE [final_factor |-> 6250 * half_hours,
          source |-> "physics_only"]

\* Mutant: the ml_factor test placed before the climate test.
blend_ml_first(ml_factor, climate_factor, half_hours) ==
    IF ml_factor > 100
    THEN [final_factor |-> 21 * ml_factor + 1875 * half_hours,
          source |-> "ml_dominant"]
    ELSE IF ~climate_factor.is_none
    THEN [final_factor |-> 1800 * climate_factor.value + 6 * ml_factor
                           + 1250 * half_hours,
          source |-> "climate_adjusted"]
    ELSE [final_factor |-> 6250 * half_hours,
          source |-> "physics_only"]

\* The three-tier blend before clamping, in units of 1/300000:
\*   ml_factor m/10000 = 30 m, climate c/100 = 3000 c,
\*   physics h2/48 = 6250 h2.
blend(ml_factor, climate_factor, half_hours) ==
    IF ~climate_factor.is_none
    THEN [final_factor |-> 1800 * climate_factor.value + 6 * ml_factor
                           + 1250 * half_hours,
          source |-> "climate_adjusted"]
    ELSE IF ml_factor > 100
    THEN [final_factor |-> 21 * ml_factor + 1875 * half_hours,
          source |-> "ml_dominant"]
    ELSE [final_factor |-> 6250 * half_hours,
          source |-> "physics_only"]

\* max(0.01, min(final_factor, 1.0)), in units of 1/300000.
clamp(final_factor) == Max(3000, Min(final_factor, 300000))

\* Mutant: the values of the keys final_factor and usage_hours_day
\* exchanged in the returned dict.
hybrid_result_keys_swapped(app_type, patterns) ==
    LET ml_factor      == lookup_ml_factor(patterns, app_type)
        climate_factor == lookup_climate_factor(app_type)
        typical_hours  == lookup_typical_hours(app_type)
        blended        == blend(ml_factor, climate_factor, typical_hours)
        final_factor   == clamp(blended.final_factor)
    IN  [final_factor    |-> 1000 * RoundHalfEven(final_factor, 1250),
         ml_factor       |-> ml_factor,
         climate_factor  |-> climate_factor,
         physics_factor  |-> RoundHalfEven(6250 * typical_hours, 30),
         source          |-> blended.source,
         usage_hours_day |-> RoundHalfEven(final_factor, 300000)]

\* The dict get_hybrid_usage_factor returns, given the cached patterns.
\* final_factor, ml_factor, physics_factor: 1/10000; climate_factor:
\* hundredths; usage_hours_day: tenths of an hour.
hybrid_result(app_type, patterns) ==
    LET ml_factor      == lookup_ml_factor(patterns, app_type)
        climate_factor == lookup_climate_factor(app_type)
        typical_hours  == lookup_typical_hours(app_type)
        blended        == blend(ml_factor, climate_factor, typical_hours)
        final_factor   == clamp(blended.final_factor)
    IN  [final_factor    |-> RoundHalfEven(final_factor, 30),
         ml_factor       |-> ml_factor,
         climate_factor  |-> climate_factor,
         physics_factor  |-> RoundHalfEven(6250 * typical_hours, 30),
         source          |-> blended.source,
         usage_hours_day |-> RoundHalfEven(final_factor, 1250)]

get_hybrid_usage_factor(app_type, cache, ds) ==
    LET filled == ensure_ml_patterns(cache, ds)
    IN  [cache |-> filled, result |-> hybrid_result(app_type, filled.patterns)]

\* a * b = q * c + r with 0 <= r < c, for a, b >= 0 and c > 0, without an
\* intermediate product: Horner's rule over the bits of b.
RECURSIVE MulDiv(_, _, _)
MulDiv(a, b, c) ==
    IF b = 0 THEN [q |-> 0, r |-> 0]
    ELSE LET h   == MulDiv(a, b \div 2, c)
             c1  == IF h.r >= c - h.r THEN 1 ELSE 0
             r1  == IF c1 = 1 THEN h.r - (c - h.r) ELSE h.r + h.r
             q1  == 2 * h.q + c1
             ar  == a % c
             c2  == IF r1 >= c - ar THEN 1 ELSE 0
         IN  IF b % 2 = 0 THEN [q |-> q1, r |-> r1]
             ELSE [q |-> q1 + (a \div c) + c2,
                   r |-> IF c2 = 1 THEN r1 - (c - ar) ELSE r1 + ar]

\* round(a * b / (c * k)): nearest integer, ties to even.
RoundRatio(a, b, c, k) ==
    LET md == MulDiv(a, b, c)
        Q  == md.q \div k
        R  == md.q % k
        up == IF 2 * R > k THEN 1
              ELSE IF 2 * R = k THEN
                   (IF md.r > 0 THEN 1 ELSE IF Q % 2 = 0 THEN 0 ELSE 1)
              ELSE IF 2 * R = k - 1 THEN
                   (IF md.r > c - md.r THEN 1
                    ELSE IF md.r < c - md.r THEN 0
                    ELSE IF Q % 2 = 0 THEN 0 ELSE 1)
              ELSE 0
    IN  Q + up

\* Mutant: the rated power left out of the product.
effective_power_unrated(appliance, usage_factor) ==
    appliance.quantity * usage_factor

\* Mutant: the quantity left out of the product.
effective_power_per_unit(appliance, usage_factor) ==
    appliance.rated_watts * usage_factor

\* effective_power = rated_watts * quantity * usage_factor
effective_power(appliance, usage_factor) ==
    appliance.rated_watts * appliance.quantity * usage_factor

\* The dict appended to appliance_estimates for one appliance.
appliance_estimate(appliance, hybrid) ==
    [type            |-> appliance.type,
     quantity        |-> appliance.quantity,
     rated_watts     |-> appliance.rated_watts,
     usage_factor    |-> hybrid.final_factor,
     effective_power |-> effective_power(appliance, hybrid.final_factor),
     factor_details  |-> hybrid]

\* The first loop of disaggregate_energy: one estimate per appliance, the
\* estimator called in list order on the shared cache.  effective_power is
\* in units of 1/10000 W.
RECURSIVE appliance_estimates(_, _, _, _)
appliance_estimates(user_appliances, i, cache, ds) ==
    IF i > Len(user_appliances) THEN [cache |-> cache, estimates |-> <<>>]
    ELSE LET appliance == user_appliances[i]
             hybrid    == get_hybrid_usage_factor(appliance.type, cache, ds)
             est  == appliance_estimate(appliance, hybrid.result)
             rest == appliance_estimates(user_appliances, i + 1,
                                         hybrid.cache, ds)
         IN  [cache |-> rest.cache, estimates |-> <<est>> \o rest.estimates]

RECURSIVE sum_effective_power(_, _)
sum_effective_power(estimates, i) ==
    IF i > Len(estimates) THEN 0
    ELSE estimates[i].effective_power + sum_effective_power(estimates, i + 1)

\* Mutant: the sum used as it is, without the `== 0` replacement.
weighted_power_divisor_unguarded(total) == total

\* Mutant: the sum floored at 1 (`max(total_weighted_power, 1)`).
weighted_power_divisor_floored(total) == Max(total, 10000)

\* `if total_weighted_power == 0: total_weighted_power = 1` (1 W = 10000).
weighted_power_divisor(total) == IF total = 0 THEN 10000 ELSE total

\* Mutant: the share taken from one unit of the appliance (quantity left
\* out) while the divisor sums the whole quantity.
breakdown_entry_per_unit(est, total_kwh, total_weighted_power) ==
    LET unit_power == est.rated_watts * est.usage_factor
    IN  [type                |-> est.type,
         quantity            |-> est.quantity,
         rated_watts         |-> est.rated_watts,
         usage_hours_per_day |-> est.factor_details.usage_hours_day,
         share_percent       |-> RoundRatio(unit_power, 1000,
                                            total_weighted_power, 1),
         estimated_kwh       |-> RoundRatio(unit_power, total_kwh,
                                            total_weighted_power, 10),
         estimated_cost_rm   |-> RoundRatio(unit_power, total_kwh * 218,
                                            total_weighted_power, 10000),
         calculation_method  |-> est.factor_details.source,
         factor_breakdown    |->
            [ml_learned       |-> est.factor_details.ml_factor,
             climate_adjusted |-> est.factor_details.climate_factor,
             physics_based    |-> est.factor_details.physics_factor]]

\* One breakdown entry.  total_kwh in Wh; share_percent in tenths of a
\* percent; estimated_kwh in 1/100 kWh; estimated_cost_rm in 1/100 RM.
breakdown_entry(est, total_kwh, total_weighted_power) ==
    [type                |-> est.type,
     quantity            |-> est.quantity,
     rated_watts         |-> est.rated_watts,
     usage_hours_per_day |-> est.factor_details.usage_hours_day,
     share_percent       |-> RoundRatio(est.effective_power, 1000,
                                        total_weighted_power, 1),
     estimated_kwh       |-> RoundRatio(est.effective_power, total_kwh,
                                        total_weighted_power, 10),
     estimated_cost_rm   |-> RoundRatio(est.effective_power, total_kwh * 218,
                                        total_weighted_power, 10000),
     calculation_method  |-> est.factor_details.source,
     factor_breakdown    |->
        [ml_learned       |-> est.factor_details.ml_factor,
         climate_adjusted |-> est.factor_details.climate_factor,
         physics_based    |-> est.factor_details.physics_factor]]

\* Mutant: the sort without reverse=True (ascending).
comes_before_ascending(e, x) == e.estimated_kwh < x.estimated_kwh

\* key=lambda x: x['estimated_kwh'], reverse=True: e is placed before x
\* when its key is strictly larger.
comes_before(e, x) == e.estimated_kwh > x.estimated_kwh

\* list.sort is stable: an entry goes before the first entry it comes
\* before, and after every entry of equal key that preceded it.
RECURSIVE insert_sorted(_, _)
insert_sorted(sorted, e) ==
    IF sorted = <<>> THEN <<e>>
    ELSE IF comes_before(e, Head(sorted))
         THEN <<e>> \o sorted
         ELSE <<Head(sorted)>> \o insert_sorted(Tail(sorted), e)

RECURSIVE sort_by_kwh_desc(_, _, _)
sort_by_kwh_desc(result, i, sorted) ==
    IF i > Len(result) THEN sorted
    ELSE sort_by_kwh_desc(result, i + 1, insert_sorted(sorted, result[i]))

\* disaggregate_energy from the zero test on: the divisor, the second
\* loop, the sort and the returned dict.  raised marks a call that ended
\* in an exception instead: the ZeroDivisionError of a share computed
\* over a zero divisor (disaggregate_usage turns it into HTTP 500).
disaggregate_result(estimates, total_kwh) ==
    LET total_weighted_power ==
            weighted_power_divisor(sum_effective_power(estimates, 1))
        raised == total_weighted_power = 0 /\ estimates # <<>>
        result == sort_by_kwh_desc(
                    [i \in 1..Len(estimates) |->
                        breakdown_entry(estimates[i], total_kwh,
                                        total_weighted_power)],
                    1, <<>>)
    IN  IF raised
        THEN [raised |-> TRUE, result |-> EmptyDict]
        ELSE
        [raised |-> FALSE,
         result |->
           [total_kwh |-> total_kwh,
            breakdown |-> result,
            summary   |->
              [top_consumer |->
                   IF result # <<>>
                   THEN [is_none |-> FALSE, type |-> result[1].type]
                   ELSE [is_none |-> TRUE, type |-> ""],
               top_consumer_percent |->
                   IF result # <<>> THEN result[1].share_percent ELSE 0,
               appliance_count |-> Len(result)]]]

\* The cache keeps what the first loop put there, whether the call
\* returns or raises.
disaggregate_energy(total_kwh, user_appliances, cache, ds) ==
    LET loop == appliance_estimates(user_appliances, 1, cache, ds)
        end  == disaggregate_result(loop.estimates, total_kwh)
    IN  [cache |-> loop.cache, raised |-> end.raised, result |-> end.result]

\* generate_usage_report: reads the dataset and the profile file and
\* writes neither.  Raises when the dataset cannot be read or the profile
\* file cannot be parsed.  One entry per analysed label that has a column
\* and a profile (all mapped labels when the inventory is None or empty);
\* of an entry only phantom_power_watts is kept: its hour and energy
\* figures are counts over the trace rows, which the dataset record does
\* not hold.
generate_usage_report(user_inventory, ds, file) ==
    LET loaded == load_profiles(file)
        appliances_to_analyze ==
            IF user_inventory = <<>> THEN APPLIANCE_MAPPING
            ELSE {user_inventory[i] : i \in 1..Len(user_inventory)}
        reported ==
            {user_label \in appliances_to_analyze :
                /\ user_label \in APPLIANCE_MAPPING \cap ds.columns
                /\ user_label \in DOMAIN loaded.profiles}
    IN  IF ~ds.readable \/ loaded.raised
        THEN [raised |-> TRUE, appliances |-> EmptyDict]
        ELSE [raised |-> FALSE,
              appliances |->
                [user_label \in reported |->
                    [phantom_power_watts |->
                        round2_mw(loaded.profiles[user_label]
                                        .phantom_power_watts)]]]

\* ------------------------------------------------ the environment drawn

\* KMeans centers (off, standby, active) per column, in milliwatts.
CentersA ==
    ("Fridge" :> <<100, 3100, 85000>>) @@
    ("Washing Machine" :> <<0, 700, 400000>>) @@
    ("Computer/PC" :> <<500, 5500, 120000>>) @@
    ("Television" :> <<0, 2004, 60001>>) @@
    ("Microwave" :> <<2000, 60000, 1000000>>) @@
    ("Air Conditioner" :> <<1000, 9000, 900000>>) @@
    ("Ceiling Fan" :> <<0, 300, 3000>>)

CentersB ==
    ("Fridge" :> <<200, 5200, 90000>>) @@
    ("Washing Machine" :> <<0, 0, 0>>) @@
    ("Computer/PC" :> <<0, 3000, 100000>>) @@
    ("Television" :> <<9001, 70000, 150000>>) @@
    ("Microwave" :> <<0, 0, 0>>) @@
    ("Air Conditioner" :> <<0, 500, 800000>>) @@
    ("Ceiling Fan" :> <<0, 0, 0>>)

ActiveRowsA ==
    ("Fridge" :> 4000) @@ ("Washing Machine" :> 100) @@
    ("Computer/PC" :> 101) @@ ("Television" :> 2500) @@
    ("Microwave" :> 0) @@ ("Air Conditioner" :> 3000) @@
    ("Ceiling Fan" :> 10000)

ActiveRowsB ==
    ("Fridge" :> 3) @@ ("Washing Machine" :> 0) @@
    ("Computer/PC" :> 2) @@ ("Television" :> 1) @@
    ("Microwave" :> 0) @@ ("Air Conditioner" :> 0) @@
    ("Ceiling Fan" :> 1)

NoRows == [l \in APPLIANCE_MAPPING |-> 0]

\* The contents House_4.csv may have: a full trace, a trace with columns
\* missing and one clustering failure, an unreadable file, a file with no
\* appliance column, and a file with a header but no rows.
HouseA ==
    [readable |-> TRUE, columns |-> APPLIANCE_MAPPING, kmeans_fails |-> {},
     centers |-> CentersA, rows |-> 10000, active_rows |-> ActiveRowsA]

Datasets ==
    { HouseA,
      [readable |-> TRUE,
       columns |-> APPLIANCE_MAPPING \ {"Washing Machine", "Microwave"},
       kmeans_fails |-> {"Ceiling Fan"},
       centers |-> CentersB, rows |-> 3, active_rows |-> ActiveRowsB],
      [readable |-> FALSE, columns |-> {}, kmeans_fails |-> {},
       centers |-> CentersA, rows |-> 0, active_rows |-> NoRows],
      [readable |-> TRUE, columns |-> {}, kmeans_fails |-> {},
       centers |-> CentersA, rows |-> 10000, active_rows |-> NoRows],
      [readable |-> TRUE, columns |-> APPLIANCE_MAPPING,
       kmeans_fails |-> APPLIANCE_MAPPING,
       centers |-> CentersA, rows |-> 0, active_rows |-> NoRows] }

\* mains readings of a detection request, in milliwatts
Readings == {0, 1000, 2500, 5000, 7003, 10000, 15000}

InventoryLabels ==
    {"Television", "Computer/PC", "Air Conditioner", "Fridge", "LED Lights",
     "Toaster"}

Inventories == UNION {[1..n -> InventoryLabels] : n \in 0..MaxInv}

\* every label of the lookup tables, and one that is in none of them
AppTypes == DOMAIN TYPICAL_USAGE_HOURS \cup {"Toaster"}

ApplianceItems ==
    { [type |-> "Fridge", quantity |-> 1, rated_watts |-> 150],
      [type |-> "Air Conditioner", quantity |-> 1, rated_watts |-> 2000],
      [type |-> "Television", quantity |-> 2, rated_watts |-> 150],
      [type |-> "Computer/PC", quantity |-> 1, rated_watts |-> 0],
      [type |-> "Microwave", quantity |-> 1, rated_watts |-> 1000],
      [type |-> "Toaster", quantity |-> 1, rated_watts |-> 1000],
      [type |-> "Toaster", quantity |-> 3, rated_watts |-> 0] }

ApplianceLists == UNION {[1..n -> ApplianceItems] : n \in 0..MaxApps}

\* total_kwh of a disaggregation request, in Wh
TotalKwh == {0, 1234, 100000}

\* inventories of a report request; the empty one stands for no inventory
StatsInventories == { <<>>, <<"Fridge">>, <<"Television", "Toaster">> }

\* ------------------------------------------------------------- main.py

Idle == [op |-> "idle"]

NoResponse == [status |-> "none"]

Ok(body) == [status |-> "ok", body |-> body]

\* HTTPException(status_code=500)
Http500 == [status |-> "error"]

\* appliance_profiles.json as a process may find it at start: not there,
\* or left by a training run of an earlier process over the full trace.
InitialStores ==
    { [exists |-> FALSE, complete |-> FALSE, profiles |-> EmptyDict],
      dumped(build_profiles(HouseA)) }

\* _cached_ml_patterns = None
NoCache ==
    [is_none |-> TRUE, patterns |-> EmptyDict, computations |-> 0,
     reused |-> FALSE]

Init ==
    /\ dataset \in Datasets
    /\ profile_file \in InitialStores
    /\ cached_ml_patterns = NoCache
    /\ request = Idle
    /\ response = NoResponse

\* POST /api/train.  store_before keeps the file as the run found it.
train_model ==
    /\ request = Idle
    /\ LET run == train_appliance_models(dataset, profile_file)
       IN  /\ profile_file' = run.file
           /\ response' = IF run.raised THEN Http500
                          ELSE Ok([status |-> "success",
                                   profiles |-> run.profiles])
    /\ request' = [op |-> "train", store_before |-> profile_file]
    /\ UNCHANGED <<dataset, cached_ml_patterns>>

\* Mutant: a detection that finds no profile file leaves an empty one
\* behind.
predict_phantom_creating_store ==
    /\ request = Idle
    /\ \E mains_reading \in Readings, inventory \in Inventories :
          /\ request' = [op |-> "predict_phantom",
                         mains_reading |-> mains_reading,
                         inventory |-> inventory]
          /\ LET result == detect_phantom_sources(mains_reading, inventory,
                                                  profile_file)
             IN  response' = IF result.raised THEN Http500 ELSE Ok(result)
    /\ profile_file' = IF profile_file.exists THEN profile_file
                       ELSE dumped(EmptyDict)
    /\ UNCHANGED <<dataset, cached_ml_patterns>>

\* POST /api/predict-phantom
predict_phantom ==
    /\ request = Idle
    /\ \E mains_reading \in Readings, inventory \in Inventories :
          /\ request' = [op |-> "predict_phantom",
                         mains_reading |-> mains_reading,
                         inventory |-> inventory]
          /\ LET result == detect_phantom_sources(mains_reading, inventory,
                                                  profile_file)
             IN  response' = IF result.raised THEN Http500 ELSE Ok(result)
    /\ UNCHANGED <<dataset, profile_file, cached_ml_patterns>>

\* POST and GET /api/stats
get_usage_stats ==
    /\ request = Idle
    /\ \E inventory \in StatsInventories :
          /\ request' = [op |-> "stats", inventory |-> inventory]
          /\ LET stats == generate_usage_report(inventory, dataset,
                                                profile_file)
             IN  response' = IF stats.raised THEN Http500
                             ELSE Ok([appliances |-> stats.appliances])
    /\ UNCHANGED <<dataset, profile_file, cached_ml_patterns>>

\* a direct call of logic_stats.get_hybrid_usage_factor
estimate ==
    /\ request = Idle
    /\ \E app_type \in AppTypes :
          LET call == get_hybrid_usage_factor(app_type, cached_ml_patterns,
                                              dataset)
          IN  /\ request' = [op |-> "estimate", app_type |-> app_type]
              /\ cached_ml_patterns' = call.cache
              /\ response' = Ok(call.result)
    /\ UNCHANGED <<dataset, profile_file>>

\* The handler of POST /api/disaggregate on one request body.
disaggregate_call(total_kwh, appliances) ==
    LET call == disaggregate_energy(total_kwh, appliances,
                                    cached_ml_patterns, dataset)
    IN  /\ request' = [op |-> "disaggregate", total_kwh |-> total_kwh,
                       appliances |-> appliances]
        /\ cached_ml_patterns' = call.cache
        /\ response' = IF call.raised THEN Http500 ELSE Ok(call.result)

\* POST /api/disaggregate
disaggregate_usage ==
    /\ request = Idle
    /\ \E total_kwh \in TotalKwh, appliances \in ApplianceLists :
          disaggregate_call(total_kwh, appliances)
    /\ UNCHANGED <<dataset, profile_file>>

\* The handler has returned; the service waits for the next request.
handler_returns ==
    /\ request # Idle
    /\ request' = Idle
    /\ response' = NoResponse
    /\ UNCHANGED <<dataset, profile_file, cached_ml_patterns>>

Next ==
    \/ train_model
    \/ predict_phantom
    \/ get_usage_stats
    \/ estimate
    \/ disaggregate_usage
    \/ handler_returns

Spec == Init /\ [][Next]_vars

\* ------------------------------------- one request, every pattern table

\* active rows out of 10000: the steps of the range and the neighbours of
\* its ends and of the 0.01 test
ScenarioActiveRows ==
    {(k * 10000) \div ScenarioSteps : k \in 0..ScenarioSteps}
    \cup {1, 100, 101, 9999}

\* Traces of 10000 rows in which the Fridge and the Air Conditioner
\* column are each absent or active in any of these numbers of rows, and
\* the file that cannot be read: the pattern tables computed from them
\* hold every ml_factor of the grid for either label, or no entry.
ScenarioDatasets ==
    { [readable |-> TRUE, columns |-> cols, kmeans_fails |-> {},
       centers |-> CentersA, rows |-> 10000,
       active_rows |->
           [l \in APPLIANCE_MAPPING |->
               IF l = "Fridge" /\ l \in cols THEN f
               ELSE IF l = "Air Conditioner" /\ l \in cols THEN a
               ELSE 0]] :
        cols \in SUBSET {"Fridge", "Air Conditioner"},
        f \in ScenarioActiveRows, a \in ScenarioActiveRows }
    \cup { [readable |-> FALSE, columns |-> {}, kmeans_fails |-> {},
            centers |-> CentersA, rows |-> 0, active_rows |-> NoRows] }

ScenarioInit ==
    /\ dataset \in ScenarioDatasets
    /\ profile_file \in InitialStores
    /\ cached_ml_patterns = NoCache
    /\ request = Idle
    /\ response = NoResponse

\* POST /api/disaggregate with total_kwh 100 and the appliances
\* [Fridge x1 at 150 W, Air Conditioner x1 at 2000 W]
scenario_request ==
    /\ request = Idle
    /\ disaggregate_call(100000,
          << [type |-> "Fridge", quantity |-> 1, rated_watts |-> 150],
             [type |-> "Air Conditioner", quantity |-> 1,
              rated_watts |-> 2000] >>)
    /\ UNCHANGED <<dataset, profile_file>>

ScenarioNext == scenario_request \/ handler_returns

ScenarioSpec == ScenarioInit /\ [][ScenarioNext]_vars

\* ------------------------------------------- handlers on worker threads
\*
\* The handlers are plain `def` functions, which the framework runs on the
\* threads of a pool: several can be inside a handler at once, and a
\* thread may be suspended between any two of its accesses to the profile
\* file or to _cached_ml_patterns.  Each action below is one such access
\* together with the thread-local computation that follows it.  request
\* and response hold one entry per worker; an entry of request also keeps
\* the handler's position (pc) and locals.

Workers == 1..MaxWorkers

ThreadedInventories == { <<"Fridge">>, <<"Television", "Toaster">> }

ThreadedApplianceLists ==
    { << [type |-> "Fridge", quantity |-> 1, rated_watts |-> 150] >>,
      << [type |-> "Air Conditioner", quantity |-> 1, rated_watts |-> 2000],
         [type |-> "Toaster", quantity |-> 1, rated_watts |-> 1000] >> }

ThreadedInit ==
    /\ dataset \in Datasets
    /\ profile_file \in InitialStores
    /\ cached_ml_patterns = NoCache
    /\ request = [w \in Workers |-> Idle]
    /\ response = [w \in Workers |-> NoResponse]

\* train_model up to the end of the profile loop: the dataset is read
\* and the profiles are built in memory; an unreadable dataset ends the
\* request with HTTP 500 before the file is touched.
train_builds(w) ==
    /\ request[w] = Idle
    /\ IF dataset.readable
       THEN /\ request' = [request EXCEPT ![w] =
                              [op |-> "train", pc |-> "open",
                               profiles |-> build_profiles(dataset)]]
            /\ UNCHANGED response
       ELSE /\ request' = [request EXCEPT ![w] =
                              [op |-> "train", pc |-> "done"]]
            /\ response' = [response EXCEPT ![w] = Http500]
    /\ UNCHANGED <<dataset, profile_file, cached_ml_patterns>>

\* with open(output_path, 'w') as f: the file is truncated.
train_opens(w) ==
    /\ request[w].op = "train" /\ request[w].pc = "open"
    /\ profile_file' = opened_for_writing
    /\ request' = [request EXCEPT ![w].pc = "dump"]
    /\ UNCHANGED <<dataset, cached_ml_patterns, response>>

\* json.dump and the end of the with-block, then the return.
train_dumps(w) ==
    /\ request[w].op = "train" /\ request[w].pc = "dump"
    /\ profile_file' = dumped(request[w].profiles)
    /\ request' = [request EXCEPT ![w].pc = "done"]
    /\ response' = [response EXCEPT ![w] =
                       Ok([status |-> "success",
                           profiles |-> request[w].profiles])]
    /\ UNCHANGED <<dataset, cached_ml_patterns>>

\* predict_phantom: load_profiles reads the file as it is at this moment
\* (store_read keeps what it found); the rest of the detection is local.
predict_reads(w) ==
    /\ request[w] = Idle
    /\ \E mains_reading \in {2500, 5000},
          inventory \in ThreadedInventories :
          /\ request' = [request EXCEPT ![w] =
                            [op |-> "predict_phantom", pc |-> "done",
                             mains_reading |-> mains_reading,
                             inventory |-> inventory,
                             store_read |-> profile_file]]
          /\ LET result == detect_phantom_sources(mains_reading, inventory,
                                                  profile_file)
             IN  response' = [response EXCEPT ![w] =
                                 IF result.raised THEN Http500
                                 ELSE Ok(result)]
    /\ UNCHANGED <<dataset, profile_file, cached_ml_patterns>>

\* disaggregate_usage enters disaggregate_energy and its first loop.
disaggregate_begins(w) ==
    /\ request[w] = Idle
    /\ \E appliances \in ThreadedApplianceLists :
          request' = [request EXCEPT ![w] =
                         [op |-> "disaggregate", pc |-> "test",
                          total_kwh |-> 100000, appliances |-> appliances,
                          i |-> 1, estimates |-> <<>>]]
    /\ UNCHANGED <<dataset, profile_file, cached_ml_patterns, response>>

\* get_hybrid_usage_factor from the lookup in the table to its return,
\* the estimate appended; after the last appliance, the rest of
\* disaggregate_energy and the handler's return.
estimator_returns(w, patterns) ==
    LET r         == request[w]
        appliance == r.appliances[r.i]
        estimates == Append(r.estimates,
                            appliance_estimate(
                                appliance,
                                hybrid_result(appliance.type, patterns)))
        end       == disaggregate_result(estimates, r.total_kwh)
    IN  IF r.i < Len(r.appliances)
        THEN /\ request' = [request EXCEPT ![w].i = r.i + 1,
                                           ![w].pc = "test",
                                           ![w].estimates = estimates]
             /\ UNCHANGED response
        ELSE /\ request' = [request EXCEPT ![w].pc = "done",
                                           ![w].estimates = estimates]
             /\ response' = [response EXCEPT ![w] =
                                IF end.raised THEN Http500
                                ELSE Ok(end.result)]

\* `if _cached_ml_patterns is None:` found false: the table is used.
estimator_reuses(w) ==
    /\ request[w].op = "disaggregate" /\ request[w].pc = "test"
    /\ ~cached_ml_patterns.is_none
    /\ cached_ml_patterns' = reused_cache(cached_ml_patterns)
    /\ estimator_returns(w, cached_ml_patterns.patterns)
    /\ UNCHANGED <<dataset, profile_file>>

\* `if _cached_ml_patterns is None:` found true: the thread goes on to
\* compute the table.
estimator_finds_none(w) ==
    /\ request[w].op = "disaggregate" /\ request[w].pc = "test"
    /\ cached_ml_patterns.is_none
    /\ request' = [request EXCEPT ![w].pc = "compute"]
    /\ UNCHANGED <<dataset, profile_file, cached_ml_patterns, response>>

\* calculate_ml_patterns_from_data has run and its result (or {}) is
\* assigned to the global, whatever the global holds by now.
estimator_computes(w) ==
    /\ request[w].op = "disaggregate" /\ request[w].pc = "compute"
    /\ cached_ml_patterns' = computed_cache(cached_ml_patterns, dataset)
    /\ estimator_returns(w, cached_ml_patterns'.patterns)
    /\ UNCHANGED <<dataset, profile_file>>

\* The handler has returned; the worker takes the next request.
worker_returns(w) ==
    /\ request[w] # Idle /\ request[w].pc = "done"
    /\ request' = [request EXCEPT ![w] = Idle]
    /\ response' = [response EXCEPT ![w] = NoResponse]
    /\ UNCHANGED <<dataset, profile_file, cached_ml_patterns>>

ThreadedNext ==
    \E w \in Workers :
        \/ train_builds(w)
        \/ train_opens(w)
        \/ train_dumps(w)
        \/ predict_reads(w)
        \/ disaggregate_begins(w)
        \/ estimator_reuses(w)
        \/ estimator_finds_none(w)
        \/ estimator_computes(w)
        \/ worker_returns(w)

ThreadedSpec == ThreadedInit /\ [][ThreadedNext]_vars

\* ------------------------------------- requests with small loads and bills
\*
\* rated_watts and total_kwh are floats of the request body: a load of
\* 1 W and a bill of 0.004 kWh are accepted like any other.  The
\* disaggregation requests of this specification draw from such values.

SmallLoadItems ==
    { [type |-> "Toaster", quantity |-> 1, rated_watts |-> 1],
      [type |-> "Computer/PC", quantity |-> 1, rated_watts |-> 0],
      [type |-> "Television", quantity |-> 2, rated_watts |-> 150],
      [type |-> "Fridge", quantity |-> 1, rated_watts |-> 150],
      [type |-> "Air Conditioner", quantity |-> 1, rated_watts |-> 2000] }

SmallLoadLists == UNION {[1..n -> SmallLoadItems] : n \in 0..MaxApps}

\* total_kwh in Wh
SmallTotals == {4, 1234}

\* POST /api/disaggregate
small_load_request ==
    /\ request = Idle
    /\ \E total_kwh \in SmallTotals, appliances \in SmallLoadLists :
          disaggregate_call(total_kwh, appliances)
    /\ UNCHANGED <<dataset, profile_file>>

SmallLoadNext == small_load_request \/ handler_returns

SmallLoadSpec == Init /\ [][SmallLoadNext]_vars

\* --------------------------------------- training over a grid of centers
\*
\* The centers KMeans returns are means of the readings of a column: any
\* three non-negative values in ascending order, equal ones included when
\* the column has fewer than three distinct readings.  The training runs
\* of this specification draw the centers of the Fridge column from a grid
\* around the limits the profile rules test (0, 5 and 50 W, and the second
\* decimal of the rounding), in milliwatts.

CenterGrid == {0, 4, 1000, 4996, 10000, 10004, 50000, 50010, 60000, 200000}

CenterTriples ==
    { <<off, standby, active>> : off \in CenterGrid, standby \in CenterGrid,
                                 active \in CenterGrid } \cap
    { c \in Seq(CenterGrid) : Len(c) = 3 /\ c[1] <= c[2] /\ c[2] <= c[3] }

TelevisionTriples ==
    { CentersA["Television"], <<0, 0, 0>>, <<60000, 200000, 200000>> }

ProfilerColumns ==
    { APPLIANCE_MAPPING, {"Fridge", "Television"}, {"Television"} }

ProfilerFailures == { {}, {"Fridge"}, {"Television"} }

ProfilerDatasets ==
    { [readable |-> TRUE, columns |-> columns, kmeans_fails |-> fails,
       centers |-> [l \in APPLIANCE_MAPPING |->
                       IF l = "Fridge" THEN fridge
                       ELSE IF l = "Television" THEN television
                       ELSE CentersA[l]],
       rows |-> 10000, active_rows |-> ActiveRowsA] :
      columns \in ProfilerColumns, fails \in ProfilerFailures,
      fridge \in CenterTriples, television \in TelevisionTriples }

ProfilerInit ==
    /\ dataset \in ProfilerDatasets
    /\ profile_file \in InitialStores
    /\ cached_ml_patterns = NoCache
    /\ request = Idle
    /\ response = NoResponse

ProfilerNext == train_model \/ handler_returns

ProfilerSpec == ProfilerInit /\ [][ProfilerNext]_vars

\* ======================================================= the properties

\* ---- the detection request in the current state, restated from the
\* ---- request and the stored profiles alone

IsDetection == request.op = "predict_phantom" /\ response.status = "ok"

StoreEmpty == ~profile_file.exists \/ DOMAIN profile_file.profiles = {}

\* phantom power stored for position i of the inventory (0: no profile)
StoredPhantom(i) ==
    IF profile_file.exists
       /\ request.inventory[i] \in DOMAIN profile_file.profiles
    THEN profile_file.profiles[request.inventory[i]].phantom_power_watts
    ELSE 0

\* the inventory positions that qualify as candidates
CandPositions ==
    {i \in 1..Len(request.inventory) :
        /\ profile_file.exists
        /\ request.inventory[i] \in DOMAIN profile_file.profiles
        /\ StoredPhantom(i) > 500}

NonEmptySubsets == SUBSET CandPositions \ {{}}

RECURSIVE SetSum(_)
SetSum(T) ==
    IF T = {} THEN 0
    ELSE LET i == CHOOSE i \in T : TRUE
         IN  StoredPhantom(i) + SetSum(T \ {i})

SetDiff(T) == Abs(request.mains_reading - SetSum(T))

\* the subsets no other subset beats
Closest == {T \in NonEmptySubsets :
                \A U \in NonEmptySubsets : SetDiff(T) <= SetDiff(U)}

SetMin(T) == CHOOSE m \in T : \A x \in T : m <= x

RECURSIVE LabelsOf(_)
LabelsOf(T) ==
    IF T = {} THEN <<>>
    ELSE <<request.inventory[SetMin(T)]>> \o LabelsOf(T \ {SetMin(T)})

\* T comes no later than U where itertools.combinations lists both
Earlier(T, U) ==
    \/ Cardinality(T) < Cardinality(U)
    \/ /\ Cardinality(T) = Cardinality(U)
       /\ (T = U \/ SetMin((T \ U) \cup (U \ T)) \in T)

\* C1 (as amended): with at least one candidate, total_phantom_watts is
\* the phantom sum of a non-empty candidate subset that no other non-empty
\* subset beats in absolute difference from the reading, and error_margin
\* is that difference rounded to 2 decimals.
C1_ClosestSubset ==
    (IsDetection /\ CandPositions # {}) =>
        \E T \in Closest :
            /\ response.body.total_phantom_watts = SetSum(T)
            /\ Abs(response.body.error_margin - SetDiff(T)) <= 5
            /\ response.body.error_margin % 10 = 0

\* C1 as stated: error_margin is the minimal difference itself.
C1_ExactMargin ==
    (IsDetection /\ CandPositions # {}) =>
        \E T \in Closest :
            /\ response.body.total_phantom_watts = SetSum(T)
            /\ response.body.error_margin = SetDiff(T)

C1_Witness ==
    /\ IsDetection
    /\ Cardinality(CandPositions) = 3
    /\ Len(response.body.detected_appliances) = 2
    /\ \E T \in Closest : response.body.error_margin # SetDiff(T)

\* C2: among the subsets of minimal difference the detector returns the
\* first one enumerated: smallest size, then earliest inventory positions.
C2_FirstFoundWins ==
    (IsDetection /\ CandPositions # {}) =>
        \E T \in Closest :
            /\ \A U \in Closest : Earlier(T, U)
            /\ response.body.detected_appliances = LabelsOf(T)

C2_Witness ==
    /\ IsDetection
    /\ \E T, U \in Closest :
          /\ Cardinality(T) < Cardinality(U)
          /\ response.body.detected_appliances = LabelsOf(T)
    /\ \E T, U \in Closest : T # U /\ Cardinality(T) = Cardinality(U)

\* C3: is_valid_detection is true exactly when an appliance was selected
\* and the best difference is at most 30% of the mains reading.
C3_ValidityThreshold ==
    IsDetection =>
        (response.body.is_valid_detection <=>
            /\ Len(response.body.detected_appliances) > 0
            /\ \E T \in Closest :
                  SetDiff(T) * 100 <= 30 * request.mains_reading)

C3_Witness ==
    /\ IsDetection
    /\ response.body.is_valid_detection
    /\ \E T \in Closest : SetDiff(T) * 100 = 30 * request.mains_reading
    /\ request.mains_reading > 0

\* C4: with no profile store, every detection returns the empty,
\* zero-valued, invalid result and does not fail.
C4_EmptyStore ==
    (request.op = "predict_phantom" /\ StoreEmpty) =>
        /\ response.status = "ok"
        /\ response.body.detected_appliances = <<>>
        /\ response.body.total_phantom_watts = 0
        /\ response.body.error_margin = 0
        /\ response.body.is_valid_detection = FALSE

C4_Witness ==
    /\ request.op = "predict_phantom"
    /\ StoreEmpty
    /\ request.mains_reading > 0
    /\ Len(request.inventory) = 2
    /\ response.status = "ok"

\* C5: with a non-empty store and no qualifying inventory item, the
\* detection is empty, total 0, error_margin the reading, invalid.
C5_NoCandidates ==
    (request.op = "predict_phantom" /\ ~StoreEmpty /\ CandPositions = {}) =>
        /\ response.status = "ok"
        /\ response.body.detected_appliances = <<>>
        /\ response.body.total_phantom_watts = 0
        /\ response.body.error_margin = request.mains_reading
        /\ response.body.is_valid_detection = FALSE

C5_Witness ==
    /\ request.op = "predict_phantom"
    /\ ~StoreEmpty
    /\ CandPositions = {}
    /\ request.mains_reading > 0
    /\ response.status = "ok"
    /\ \E i \in 1..Len(request.inventory) :
          request.inventory[i] \notin DOMAIN profile_file.profiles
    /\ \E i \in 1..Len(request.inventory) :
          /\ request.inventory[i] \in DOMAIN profile_file.profiles
          /\ StoredPhantom(i) = 500

\* C6: every detected label is the label of an inventory item whose stored
\* phantom power is strictly above 0.5 W.
C6_OnlyCandidatesDetected ==
    IsDetection =>
        \A k \in 1..Len(response.body.detected_appliances) :
            \E i \in 1..Len(request.inventory) :
                /\ request.inventory[i] = response.body.detected_appliances[k]
                /\ profile_file.exists
                /\ request.inventory[i] \in DOMAIN profile_file.profiles
                /\ profile_file.profiles[request.inventory[i]]
                       .phantom_power_watts > 500

C6_Witness ==
    /\ IsDetection
    /\ Len(response.body.detected_appliances) = 1
    /\ \E i \in 1..Len(request.inventory) :
          /\ request.inventory[i] \in DOMAIN profile_file.profiles
          /\ StoredPhantom(i) = 500
    /\ \E i \in 1..Len(request.inventory) :
          request.inventory[i] = "LED Lights"

\* ---- the estimator call in the current state

IsEstimate == request.op = "estimate" /\ response.status = "ok"

NoPattern(app_type) == app_type \notin DOMAIN cached_ml_patterns.patterns

\* C7: a label missing from the profile store or from the pattern table
\* makes no call fail: the detector skips the item, the estimator answers
\* with its defaults (ml_factor 0.2, no climate factor, 4.0 h), and the
\* disaggregation still lists the appliance.
C7_UnknownLabelHandled ==
    /\ (request.op = "predict_phantom"
        /\ \E i \in 1..Len(request.inventory) :
              request.inventory[i]
                  \notin DOMAIN load_profiles(profile_file).profiles)
       => /\ response.status = "ok"
          /\ \A k \in 1..Len(response.body.detected_appliances) :
                response.body.detected_appliances[k]
                    \in DOMAIN load_profiles(profile_file).profiles
    /\ request.op = "estimate" =>
          /\ response.status = "ok"
          /\ NoPattern(request.app_type) => response.body.ml_factor = 2000
          /\ request.app_type \notin DOMAIN CLIMATE_ADJUSTMENTS
                => response.body.climate_factor.is_none
          /\ request.app_type \notin DOMAIN TYPICAL_USAGE_HOURS
                => response.body.physics_factor = 1667
    /\ request.op = "disaggregate" =>
          /\ response.status = "ok"
          /\ Len(response.body.breakdown) = Len(request.appliances)
          /\ \A k \in 1..Len(response.body.breakdown) :
                NoPattern(response.body.breakdown[k].type)
                    => response.body.breakdown[k].factor_breakdown.ml_learned
                         = 2000

C7_Witness ==
    /\ IsDetection
    /\ profile_file.exists
    /\ Len(request.inventory) = 3
    /\ request.inventory[1] = "Toaster"
    /\ Len(response.body.detected_appliances) = 2

\* C8: a reading of 0 with candidates present is answered, not failed:
\* the detection is invalid, and the result is the single candidate of
\* smallest phantom power, with error_margin equal to that power.
C8_ZeroReading ==
    (request.op = "predict_phantom" /\ request.mains_reading = 0
     /\ CandPositions # {}) =>
        /\ response.status = "ok"
        /\ response.body.is_valid_detection = FALSE
        /\ \E i \in CandPositions :
              /\ \A U \in NonEmptySubsets : StoredPhantom(i) <= SetSum(U)
              /\ response.body.detected_appliances = <<request.inventory[i]>>
              /\ response.body.total_phantom_watts = StoredPhantom(i)
              /\ response.body.error_margin = StoredPhantom(i)

C8_Witness ==
    /\ IsDetection
    /\ request.mains_reading = 0
    /\ Cardinality(CandPositions) = 3
    /\ \E i, j \in CandPositions : StoredPhantom(i) < StoredPhantom(j)
    /\ response.body.error_margin > 0

\* C9: final_factor lies in [0.01, 1.0] for every appliance type and
\* every cached pattern table.
C9_FinalFactorClamped ==
    IsEstimate =>
        /\ response.body.final_factor >= 100
        /\ response.body.final_factor <= 10000

C9_Witness ==
    /\ IsEstimate
    /\ ~NoPattern(request.app_type)
    /\ response.body.ml_factor = 10000
    /\ response.body.final_factor > 5000

\* the labels of CLIMATE_ADJUSTMENTS
ClimateLabels == {"Air Conditioner", "Ceiling Fan", "Fridge", "Refrigerator"}

\* C10: the source tag follows the priority order: climate_adjusted for a
\* label with a climate entry whatever its ml_factor, else ml_dominant
\* when ml_factor > 0.01, else physics_only.
C10_SourceTag ==
    IsEstimate =>
        response.body.source =
            IF request.app_type \in ClimateLabels THEN "climate_adjusted"
            ELSE IF response.body.ml_factor > 100 THEN "ml_dominant"
            ELSE "physics_only"

C10_Witness ==
    /\ IsEstimate
    /\ request.app_type \in ClimateLabels
    /\ response.body.ml_factor > 100
    /\ response.body.source = "climate_adjusted"

\* ---- the disaggregation call in the current state

IsDisaggregation == request.op = "disaggregate" /\ response.status = "ok"

RECURSIVE SumShare(_, _)
SumShare(breakdown, i) ==
    IF i > Len(breakdown) THEN 0
    ELSE breakdown[i].share_percent + SumShare(breakdown, i + 1)

RECURSIVE SumKwh(_, _)
SumKwh(breakdown, i) ==
    IF i > Len(breakdown) THEN 0
    ELSE breakdown[i].estimated_kwh + SumKwh(breakdown, i + 1)

\* some requested appliance draws power: rated_watts * quantity > 0
SomePower ==
    \E i \in 1..Len(request.appliances) :
        request.appliances[i].rated_watts * request.appliances[i].quantity > 0

\* The sums are within rounding tolerance: each entry is rounded to one
\* decimal of a percent (units of 0.1, half a unit of error each) and to
\* two decimals of a kWh (units of 0.01; total_kwh is in Wh, 10 Wh a unit).
SharesSumTo100 ==
    2 * Abs(SumShare(response.body.breakdown, 1) - 1000)
        <= Len(response.body.breakdown)

KwhSumToTotal ==
    2 * Abs(10 * SumKwh(response.body.breakdown, 1) - request.total_kwh)
        <= 10 * Len(response.body.breakdown)

\* C11 (as amended): when at least one appliance has rated_watts * quantity
\* above 0, the estimated_kwh of the entries sum to total_kwh and the
\* share_percent values sum to 100, each within rounding tolerance.
C11_Conservation ==
    (IsDisaggregation /\ SomePower) => (SharesSumTo100 /\ KwhSumToTotal)

\* C11 as stated: the two sums hold for all inputs.
C11_ConservationAllInputs ==
    IsDisaggregation => (SharesSumTo100 /\ KwhSumToTotal)

C11_Witness ==
    /\ IsDisaggregation
    /\ Len(response.body.breakdown) = 2
    /\ request.total_kwh = 1234
    /\ request.appliances[1].quantity = 2
    /\ \A k \in 1..2 : response.body.breakdown[k].estimated_kwh > 0
    /\ SumShare(response.body.breakdown, 1) = 1000
    /\ 10 * SumKwh(response.body.breakdown, 1) # request.total_kwh

\* C12: the breakdown is sorted by non-increasing estimated_kwh, and when
\* it is non-empty top_consumer is the type of its first entry and
\* top_consumer_percent that entry's share_percent.
C12_SortedTopConsumer ==
    IsDisaggregation =>
        LET breakdown == response.body.breakdown
            summary   == response.body.summary
        IN  /\ \A i \in 1..(Len(breakdown) - 1) :
                  breakdown[i].estimated_kwh >= breakdown[i + 1].estimated_kwh
            /\ breakdown # <<>> =>
                  /\ ~summary.top_consumer.is_none
                  /\ summary.top_consumer.type = breakdown[1].type
                  /\ summary.top_consumer_percent = breakdown[1].share_percent

C12_Witness ==
    /\ IsDisaggregation
    /\ Len(response.body.breakdown) = 2
    /\ response.body.breakdown[1].estimated_kwh
           > response.body.breakdown[2].estimated_kwh
    /\ response.body.breakdown[1].type = request.appliances[2].type
    /\ response.body.breakdown[1].type # request.appliances[1].type
    /\ response.body.summary.top_consumer.type = request.appliances[2].type

\* C13: degenerate inputs are answered, not failed: when every appliance
\* has rated_watts 0 every entry has share_percent, estimated_kwh and cost
\* 0; when the list is empty the breakdown is [], top_consumer is None,
\* top_consumer_percent is 0 and appliance_count is 0.
C13_DegenerateInputs ==
    /\ (request.op = "disaggregate"
        /\ \A i \in 1..Len(request.appliances) :
              request.appliances[i].rated_watts = 0)
       => /\ response.status = "ok"
          /\ Len(response.body.breakdown) = Len(request.appliances)
          /\ \A k \in 1..Len(response.body.breakdown) :
                /\ response.body.breakdown[k].share_percent = 0
                /\ response.body.breakdown[k].estimated_kwh = 0
                /\ response.body.breakdown[k].estimated_cost_rm = 0
    /\ (request.op = "disaggregate" /\ request.appliances = <<>>)
       => /\ response.status = "ok"
          /\ response.body.breakdown = <<>>
          /\ response.body.summary.top_consumer.is_none
          /\ response.body.summary.top_consumer_percent = 0
          /\ response.body.summary.appliance_count = 0

C13_Witness ==
    /\ IsDisaggregation
    /\ Len(request.appliances) = 2
    /\ request.total_kwh = 100000
    /\ \A i \in 1..2 : request.appliances[i].rated_watts = 0
    /\ request.appliances[1].type # request.appliances[2].type
    /\ response.body.summary.top_consumer_percent = 0

\* ---- the empirical pattern cache

\* a step in which get_hybrid_usage_factor was called at least once
EstimatorCalled ==
    \/ request'.op = "estimate"
    \/ request'.op = "disaggregate" /\ request'.appliances # <<>>

\* C14: the pattern table is computed exactly once, by the first call of
\* the estimator, and every later call leaves the cached table as it is;
\* a failed computation leaves the empty table, which is not computed
\* again.
C14_ComputedOnce ==
    [][ /\ (cached_ml_patterns.is_none /\ EstimatorCalled) =>
              /\ ~cached_ml_patterns'.is_none
              /\ cached_ml_patterns'.computations = 1
              /\ ~dataset.readable =>
                    cached_ml_patterns'.patterns = EmptyDict
        /\ (cached_ml_patterns.is_none /\ ~EstimatorCalled) =>
              cached_ml_patterns' = cached_ml_patterns
        /\ ~cached_ml_patterns.is_none =>
              /\ ~cached_ml_patterns'.is_none
              /\ cached_ml_patterns'.patterns = cached_ml_patterns.patterns
              /\ cached_ml_patterns'.computations = 1 ]_vars

\* a later call has reused the empty table a failed computation left
C14_Witness ==
    /\ request.op = "estimate"
    /\ ~dataset.readable
    /\ ~cached_ml_patterns.is_none
    /\ cached_ml_patterns.patterns = EmptyDict
    /\ cached_ml_patterns.computations = 1
    /\ cached_ml_patterns.reused

\* ---- the training run in the current state

IsTraining == request.op = "train" /\ response.status = "ok"

\* the labels a run over the dataset produces
TrainedLabels ==
    (APPLIANCE_MAPPING \cap dataset.columns)
    \cup (IF "Fridge" \in dataset.columns THEN {"Refrigerator"} ELSE {})
    \cup {"LED Lights"}

\* C17: after a successful training run the profile file holds exactly
\* the mapping that run built and returned: the clustered labels, the
\* Refrigerator alias when Fridge is there, and LED Lights; nothing of the
\* previous file survives unless the run produced it again.
C17_StoreReplaced ==
    IsTraining =>
        /\ profile_file.exists
        /\ profile_file.profiles = response.body.profiles
        /\ DOMAIN profile_file.profiles = TrainedLabels
        /\ \A l \in DOMAIN request.store_before.profiles \ TrainedLabels :
              l \notin DOMAIN profile_file.profiles

\* a run that replaced a file holding other labels and other values
C17_Witness ==
    /\ IsTraining
    /\ request.store_before.exists
    /\ "Washing Machine" \in DOMAIN request.store_before.profiles
    /\ "Washing Machine" \notin DOMAIN profile_file.profiles
    /\ "Fridge" \in DOMAIN profile_file.profiles
    /\ profile_file.profiles["Fridge"]
           # request.store_before.profiles["Fridge"]

\* ---- the size of the subset search

\* The largest inventory a configured maximum would admit.  The code
\* configures none; the value is taken one below the longest inventory of
\* the model so that an inventory above it can be requested.
InventoryLimit == MaxInv - 1

\* the number of subsets the search of the current request went through
SubsetsEnumerated == Len(search_order(Cardinality(CandPositions)))

\* C18: an inventory above the maximum size is rejected, so that no
\* request makes the detector enumerate more subsets than an inventory of
\* the maximum size has.
C18_InventoryBounded ==
    request.op = "predict_phantom" =>
        /\ Len(request.inventory) > InventoryLimit
              => response.status = "error"
        /\ response.status = "ok"
              => SubsetsEnumerated <= Len(search_order(InventoryLimit))

\* ---- the blend of the estimator, restated from the tables: all three
\* ---- factors in units of 1/300000

\* ml_factor of the label in the cached table, 0.2 when it has none
MlOf(app_type) ==
    30 * (IF NoPattern(app_type) THEN 2000
          ELSE cached_ml_patterns.patterns[app_type].ml_factor)

\* malaysia_factor of a label of CLIMATE_ADJUSTMENTS
ClimateOf(app_type) == 3000 * CLIMATE_ADJUSTMENTS[app_type]

\* typical_daily_hours / 24, with 4.0 hours (8 half-hours) when unlisted
PhysicsOf(app_type) ==
    6250 * (IF app_type \in DOMAIN TYPICAL_USAGE_HOURS
            THEN TYPICAL_USAGE_HOURS[app_type] ELSE 8)

\* ten times the blended value before clamping
TenfoldBlend(app_type) ==
    IF app_type \in ClimateLabels
    THEN 6 * ClimateOf(app_type) + 2 * MlOf(app_type)
         + 2 * PhysicsOf(app_type)
    ELSE IF MlOf(app_type) > 3000
    THEN 7 * MlOf(app_type) + 3 * PhysicsOf(app_type)
    ELSE 10 * PhysicsOf(app_type)

\* ten times the blended value clamped to [0.01, 1.0]
TenfoldClamped(app_type) ==
    Max(30000, Min(TenfoldBlend(app_type), 3000000))

\* C20 (as amended): the blended value is 0.6 climate + 0.2 ml + 0.2
\* physics with a climate factor, 0.7 ml + 0.3 physics without one when
\* ml_factor > 0.01, physics alone otherwise; the returned final_factor is
\* that value clamped to [0.01, 1.0] and rounded to 4 decimals.
C20_BlendFormula ==
    IsEstimate =>
        response.body.final_factor
            = RoundHalfEven(TenfoldClamped(request.app_type), 300)

\* C20 as stated: the returned final_factor is the clamped value itself.
C20_ExactBlend ==
    IsEstimate =>
        300 * response.body.final_factor = TenfoldClamped(request.app_type)

C20_Witness ==
    /\ IsEstimate
    /\ request.app_type = "Air Conditioner"
    /\ ~NoPattern("Air Conditioner")
    /\ response.body.ml_factor = 3000
    /\ response.body.final_factor = 3367
    /\ 300 * response.body.final_factor # TenfoldClamped(request.app_type)

\* ---- the scenario request, under ScenarioSpec

\* C19: total_kwh 100 over [Fridge x1 at 150 W, Air Conditioner x1 at
\* 2000 W] gives a breakdown of length 2 with Air Conditioner first and
\* shares summing to 100%, whatever the pattern table holds for the two
\* labels.
C19_Scenario ==
    request.op = "disaggregate" =>
        /\ response.status = "ok"
        /\ Len(response.body.breakdown) = 2
        /\ response.body.breakdown[1].type = "Air Conditioner"
        /\ response.body.breakdown[2].type = "Fridge"
        /\ SumShare(response.body.breakdown, 1) = 1000

\* the table least favourable to the ranking: the Fridge always active,
\* the Air Conditioner never
C19_Witness ==
    /\ IsDisaggregation
    /\ request.total_kwh = 100000
    /\ ~NoPattern("Fridge") /\ ~NoPattern("Air Conditioner")
    /\ cached_ml_patterns.patterns["Fridge"].ml_factor = 10000
    /\ cached_ml_patterns.patterns["Air Conditioner"].ml_factor = 0
    /\ response.body.breakdown[1].type = "Air Conditioner"
    /\ response.body.breakdown[1].share_percent < 800

\* ---- requests served at the same time, under ThreadedSpec

\* C15: however the requests interleave, the pattern table is computed
\* only once: the threads that find the cache uninitialised while another
\* is computing wait for that computation or reuse its result.
C15_SingleComputation == cached_ml_patterns.computations <= 1

\* C16: a detection never reads the profile file half-written: what
\* load_profiles finds is no file, or a file holding a whole document.
C16_NoHalfWrittenRead ==
    \A w \in Workers :
        request[w].op = "predict_phantom" =>
            /\ request[w].store_read.exists
                  => request[w].store_read.complete
            /\ ~load_profiles(request[w].store_read).raised

\* ---- the default of a label the cached table does not list

\* C21: ml_factor is 0.2 whenever the label has no entry in the cached
\* table, also after a failed computation left the table empty; so a label
\* with no climate entry and no cached pattern is tagged ml_dominant, and
\* physics_only is returned only for a label that has a cached pattern
\* with ml_factor <= 0.01 and no climate entry.
C21_MissingPatternDefault ==
    IsEstimate =>
        /\ NoPattern(request.app_type) => response.body.ml_factor = 2000
        /\ (NoPattern(request.app_type)
              /\ request.app_type \notin ClimateLabels)
               => response.body.source = "ml_dominant"
        /\ response.body.source = "physics_only"
               => /\ ~NoPattern(request.app_type)
                  /\ cached_ml_patterns.patterns[request.app_type].ml_factor
                        <= 100
                  /\ request.app_type \notin ClimateLabels

C21_Witness ==
    /\ IsEstimate
    /\ ~dataset.readable
    /\ ~cached_ml_patterns.is_none
    /\ DOMAIN cached_ml_patterns.patterns = {}
    /\ request.app_type = "Television"
    /\ response.body.ml_factor = 2000
    /\ response.body.source = "ml_dominant"

\* ---- the effective powers of a disaggregation, restated from the
\* ---- request and the tables: units of 1/10000 W

\* final_factor of a label: the clamped blend rounded to 4 decimals
FinalFactorOf(app_type) == RoundHalfEven(TenfoldClamped(app_type), 300)

\* rated_watts * quantity * final_factor of a requested appliance or of a
\* breakdown entry
PowerOf(item) ==
    item.rated_watts * item.quantity * FinalFactorOf(item.type)

RECURSIVE SumPower(_, _)
SumPower(appliances, i) ==
    IF i > Len(appliances) THEN 0
    ELSE PowerOf(appliances[i]) + SumPower(appliances, i + 1)

TotalPower == SumPower(request.appliances, 1)

\* C22 (as amended): the divisor of the shares is the sum of the effective
\* powers, replaced by 1 only when that sum is exactly 0; a positive sum
\* smaller than 1 is used as it is.
C22_DivisorZeroReplaced ==
    IsDisaggregation =>
        LET divisor == IF TotalPower = 0 THEN 10000 ELSE TotalPower
        IN  \A k \in 1..Len(response.body.breakdown) :
                response.body.breakdown[k].share_percent
                    = RoundRatio(PowerOf(response.body.breakdown[k]), 1000,
                                 divisor, 1)

\* C22 as stated: the divisor is the sum floored at 1, never below 1, also
\* when the sum is positive but smaller than 1.
C22_DivisorFlooredAtOne ==
    IsDisaggregation =>
        LET divisor == Max(TotalPower, 10000)
        IN  \A k \in 1..Len(response.body.breakdown) :
                response.body.breakdown[k].share_percent
                    = RoundRatio(PowerOf(response.body.breakdown[k]), 1000,
                                 divisor, 1)

C22_Witness ==
    /\ IsDisaggregation
    /\ TotalPower > 0
    /\ TotalPower < 10000
    /\ Len(response.body.breakdown) = 2
    /\ response.body.breakdown[1].rated_watts = 1
    /\ response.body.breakdown[1].share_percent = 1000
    /\ response.body.breakdown[2].share_percent = 0

\* the divisor of the shares: 1 W in place of a sum of exactly 0
DivisorOf(total) == IF total = 0 THEN 10000 ELSE total

ClusteredLabels ==
    (APPLIANCE_MAPPING \cap dataset.columns) \ dataset.kmeans_fails

StoredProfile(l) == profile_file.profiles[l]

\* C24: for every profile derived from real clusters (sorted centers off
\* <= standby <= active) the stored active_threshold_watts is strictly
\* greater than the stored phantom_power_watts, on the direct and on the
\* fallback path of the phantom rule.
C24_ThresholdAbovePhantom ==
    IsTraining =>
        \A l \in ClusteredLabels :
            StoredProfile(l).active_threshold_watts
                > StoredProfile(l).phantom_power_watts

OffCenter(l)     == dataset.centers[l][1]

StandbyCenter(l) == dataset.centers[l][2]

ActiveCenter(l)  == dataset.centers[l][3]

\* round(x, 2) of a value given in half-milliwatts, in milliwatts
Rounded2(h) == 10 * RoundHalfEven(h, 20)

\* the phantom power the rule gives for the centers of l
RulePhantom(l) ==
    LET difference == StandbyCenter(l) - OffCenter(l)
    IN  IF 0 <= difference /\ difference <= 50000
        THEN Rounded2(2 * difference)
        ELSE Rounded2(Max(2 * 1000, OffCenter(l)))

\* the active threshold the rule gives for the centers of l
RuleThreshold(l) ==
    LET twice_midpoint == StandbyCenter(l) + ActiveCenter(l)
    IN  IF twice_midpoint < 2 * 5000 THEN 5000
        ELSE Rounded2(twice_midpoint)

\* C25: phantom_power is standby - off when that difference lies in
\* [0, 50], otherwise max(1.0, off * 0.5); so every stored phantom power
\* that comes from clustering is >= 0 whenever the centers are
\* non-negative.
C25_PhantomRule ==
    IsTraining =>
        \A l \in ClusteredLabels :
            /\ StoredProfile(l).phantom_power_watts = RulePhantom(l)
            /\ (OffCenter(l) >= 0 => StoredProfile(l).phantom_power_watts >= 0)

C25_Witness ==
    /\ IsTraining
    /\ "Fridge" \in ClusteredLabels
    /\ OffCenter("Fridge") = 10000
    /\ StandbyCenter("Fridge") = 60000
    /\ StoredProfile("Fridge").phantom_power_watts = 50000

\* C26: active_threshold is (standby + active) / 2, replaced by 5.0 when
\* below 5; so every profile of a written store (clustered, fallback,
\* Refrigerator alias, LED Lights) has active_threshold_watts >= 5.0.
C26_ThresholdFloor ==
    IsTraining =>
        /\ \A l \in ClusteredLabels :
              StoredProfile(l).active_threshold_watts = RuleThreshold(l)
        /\ \A l \in DOMAIN profile_file.profiles :
              StoredProfile(l).active_threshold_watts >= 5000

C26_Witness ==
    /\ IsTraining
    /\ "Fridge" \in ClusteredLabels
    /\ StandbyCenter("Fridge") = 4
    /\ ActiveCenter("Fridge") = 1000
    /\ StoredProfile("Fridge").active_threshold_watts = 5000
    /\ StoredProfile("Refrigerator").active_threshold_watts = 5000

\* the labels whose column was there and whose clustering raised
FailedLabels ==
    APPLIANCE_MAPPING \cap dataset.columns \cap dataset.kmeans_fails

\* C27: a clustering failure for one appliance gives that appliance the
\* fallback profile (phantom 1.0, threshold 10.0, always_on from the
\* allowlist); the run does not abort, every other appliance gets the
\* profile of its own centers, and the store is written.
C27_FailureIsolated ==
    (request.op = "train" /\ dataset.readable) =>
        /\ response.status = "ok"
        /\ profile_file.exists
        /\ profile_file.complete
        /\ profile_file.profiles = response.body.profiles
        /\ \A l \in FailedLabels :
              /\ l \in DOMAIN profile_file.profiles
              /\ StoredProfile(l).phantom_power_watts = 1000
              /\ StoredProfile(l).active_threshold_watts = 10000
              /\ StoredProfile(l).always_on = (l \in {"Fridge", "Refrigerator"})
        /\ \A l \in ClusteredLabels :
              /\ l \in DOMAIN profile_file.profiles
              /\ StoredProfile(l).phantom_power_watts = RulePhantom(l)
              /\ StoredProfile(l).active_threshold_watts = RuleThreshold(l)

C27_Witness ==
    /\ IsTraining
    /\ FailedLabels = {"Television"}
    /\ "Fridge" \in ClusteredLabels
    /\ StoredProfile("Television").phantom_power_watts = 1000
    /\ StoredProfile("Television").active_threshold_watts = 10000
    /\ StoredProfile("Fridge").phantom_power_watts = 50000
    /\ StoredProfile("Fridge").active_threshold_watts = 130000

\* C28: the store has a Refrigerator entry exactly when it has a Fridge
\* entry, with the same phantom power and threshold and always_on true; it
\* always has LED Lights with phantom 0, threshold 5.0 and always_on
\* false; and every other entry has always_on true only if its label is
\* Fridge or Refrigerator.
C28_AliasAndLights ==
    IsTraining =>
        LET stored == DOMAIN profile_file.profiles
        IN  /\ ("Refrigerator" \in stored) <=> ("Fridge" \in stored)
            /\ "Fridge" \in stored =>
                  /\ StoredProfile("Refrigerator").phantom_power_watts
                        = StoredProfile("Fridge").phantom_power_watts
                  /\ StoredProfile("Refrigerator").active_threshold_watts
                        = StoredProfile("Fridge").active_threshold_watts
                  /\ StoredProfile("Refrigerator").always_on
            /\ "LED Lights" \in stored
            /\ StoredProfile("LED Lights").phantom_power_watts = 0
            /\ StoredProfile("LED Lights").active_threshold_watts = 5000
            /\ ~StoredProfile("LED Lights").always_on
            /\ \A l \in stored \ {"Refrigerator", "LED Lights"} :
                  StoredProfile(l).always_on
                      => l \in {"Fridge", "Refrigerator"}

C28_Witness ==
    /\ IsTraining
    /\ dataset.columns = {"Fridge", "Television"}
    /\ DOMAIN profile_file.profiles
          = {"Fridge", "Television", "Refrigerator", "LED Lights"}
    /\ StoredProfile("Fridge").phantom_power_watts = 50000
    /\ StoredProfile("Refrigerator").phantom_power_watts = 50000
    /\ StoredProfile("Refrigerator").always_on
    /\ ~StoredProfile("Television").always_on

\* ---- what may change the profile store

\* C29: the store is changed only by train_appliance_models: a detection,
\* a usage report, an estimate and a disaggregation leave it as it was in
\* every outcome, so the detections between two training runs all read
\* the same profiles.
C29_StoreFrame ==
    [][request'.op # "train" => profile_file' = profile_file]_vars

C29_Witness ==
    /\ IsDetection
    /\ profile_file.exists
    /\ profile_file.complete
    /\ response.body.is_valid_detection
    /\ Len(response.body.detected_appliances) = 2

\* C30: a training run that fails before its final write leaves the store
\* as it found it, so later detections keep using the old profiles.
C30_FailedTrainingKeepsStore ==
    (request.op = "train" /\ response.status = "error")
        => profile_file = request.store_before

C30_Witness ==
    /\ request.op = "train"
    /\ response.status = "error"
    /\ ~dataset.readable
    /\ request.store_before.exists
    /\ "Fridge" \in DOMAIN profile_file.profiles

====
